---- MODULE Spec2Model ----
(***************************************************************************)
(* pipe2proj (src/main.go): extraction of resources, resource types and    *)
(* tasks of a pipeline into a project directory.                           *)
(*                                                                         *)
(* Representation.                                                         *)
(*   - a string is a TLA+ string, "" the empty string; a slash-separated   *)
(*     path is the tuple of its segments, <<>> the empty path;             *)
(*   - a Go pointer is <<>> (nil) or <<x>> (a pointer to x);               *)
(*   - *InParallelConfig is <<a>> with a an address of the variable heap:  *)
(*     copying a PlanConfig copies the address, not the config, exactly as *)
(*     Go copies the pointer;                                              *)
(*   - an error is a record [kind, ctx, path, node], NoErr when nil.       *)
(***************************************************************************)
EXTENDS Integers, Sequences, FiniteSets, TLC

VARIABLES
    fs,       \* project directory: path -> bytes, for the files that exist
    dirs,     \* directories that exist in the project directory
    heap,     \* the InParallelConfig objects, by address
    pc,       \* position of Execute (or of the harness of a narrower specification)
    cmd,      \* the Command's fields and the files it reads
    config,   \* the parsed PipelineConfig
    newJobs,  \* Execute's newJobs
    trace,    \* what the run did so far: visits, local reads, syncFile writes
    call      \* the last call made and what it returned

vars == <<fs, dirs, heap, pc, cmd, config, newJobs, trace, call>>

(***************************************************************************)
(* Bounds of the model.                                                    *)
(***************************************************************************)
MaxDepth == 2

(***************************************************************************)
(* Errors.                                                                 *)
(***************************************************************************)
\* kind: what failed; ctx: the prefixes fmt.Errorf wrapped around it, outermost
\* first; path: the path a conflict names; node: the step an "unknown step type"
\* error carries, serialized.
NoErr == [kind |-> "nil", ctx |-> <<>>, path |-> <<>>, node |-> <<>>]

Err(kind) == [NoErr EXCEPT !.kind = kind]

\* fmt.Errorf("<tag>: %s", err)
Wrap(tag, e) == [e EXCEPT !.ctx = <<tag>> \o @]

(***************************************************************************)
(* atc.PlanConfig: an all-optional record.                                  *)
(***************************************************************************)
EmptyPlan ==
    [Abort |-> <<>>, Error |-> <<>>, Success |-> <<>>, Failure |-> <<>>,
     Ensure |-> <<>>, Try |-> <<>>, Do |-> <<>>, Aggregate |-> <<>>,
     InParallel |-> <<>>, Get |-> "", Put |-> "", Task |-> "",
     TaskConfigPath |-> <<>>]

\* The pointer-to-one-plan alternatives, in walkPlan's order.
HookFields == <<"Abort", "Error", "Success", "Failure", "Ensure", "Try">>

\* The pointer-to-sequence alternatives, in walkPlan's order.
SeqFields == <<"Do", "Aggregate">>

Range(s) == {s[i] : i \in 1..Len(s)}

GetStep(n) == [EmptyPlan EXCEPT !.Get = n]
PutStep(n) == [EmptyPlan EXCEPT !.Put = n]
TaskStep(n) == [EmptyPlan EXCEPT !.Task = n]
TaskFileStep(n, p) == [EmptyPlan EXCEPT !.Task = n, !.TaskConfigPath = p]

(***************************************************************************)
(* Loading a plan: yaml.Unmarshal allocates one InParallelConfig per       *)
(* in_parallel step.  The document form of a plan holds the config itself  *)
(* (InParallel = <<[Steps |-> ...]>>), the loaded form its address.        *)
(***************************************************************************)
RECURSIVE Alloc(_, _)
RECURSIVE AllocSeq(_, _)
RECURSIVE AllocFields(_, _, _)

\* Loads the children under the hook fields flds (a sequence of field names).
AllocFields(plan, flds, h) ==
    IF flds = <<>> THEN [plan |-> plan, heap |-> h]
    ELSE LET f == Head(flds) IN
         IF plan[f] = <<>> THEN AllocFields(plan, Tail(flds), h)
         ELSE LET r == Alloc(plan[f][1], h) IN
              AllocFields([plan EXCEPT ![f] = <<r.plan>>], Tail(flds), r.heap)

AllocSeq(s, h) ==
    IF s = <<>> THEN [plans |-> <<>>, heap |-> h]
    ELSE LET r == Alloc(Head(s), h)
             t == AllocSeq(Tail(s), r.heap)
         IN [plans |-> <<r.plan>> \o t.plans, heap |-> t.heap]

Alloc(doc, h) ==
    LET a == AllocFields(doc, HookFields, h)
        d == IF a.plan.Do = <<>> THEN [plan |-> a.plan, heap |-> a.heap]
             ELSE LET r == AllocSeq(a.plan.Do[1], a.heap) IN
                  [plan |-> [a.plan EXCEPT !.Do = <<r.plans>>], heap |-> r.heap]
        g == IF d.plan.Aggregate = <<>> THEN d
             ELSE LET r == AllocSeq(d.plan.Aggregate[1], d.heap) IN
                  [plan |-> [d.plan EXCEPT !.Aggregate = <<r.plans>>], heap |-> r.heap]
    IN IF g.plan.InParallel = <<>> THEN g
       ELSE LET r == AllocSeq(g.plan.InParallel[1].Steps, g.heap)
                addr == Len(r.heap) + 1
            IN [plan |-> [g.plan EXCEPT !.InParallel = <<addr>>],
                heap |-> Append(r.heap, [Steps |-> r.plans])]

(***************************************************************************)
(* What a plan is, read through the heap h: its document form.  This is    *)
(* what yaml.Marshal writes and what a holder of the plan observes.        *)
(***************************************************************************)
RECURSIVE Resolve(_, _)
RECURSIVE ResolveSeq(_, _)
RECURSIVE ResolveFields(_, _, _)

ResolveFields(plan, flds, h) ==
    IF flds = <<>> THEN plan
    ELSE LET f == Head(flds) IN
         IF plan[f] = <<>> THEN ResolveFields(plan, Tail(flds), h)
         ELSE ResolveFields([plan EXCEPT ![f] = <<Resolve(plan[f][1], h)>>], Tail(flds), h)

ResolveSeq(s, h) ==
    IF s = <<>> THEN <<>> ELSE <<Resolve(Head(s), h)>> \o ResolveSeq(Tail(s), h)

Resolve(plan, h) ==
    LET a == ResolveFields(plan, HookFields, h)
        d == IF a.Do = <<>> THEN a ELSE [a EXCEPT !.Do = <<ResolveSeq(a.Do[1], h)>>]
        g == IF d.Aggregate = <<>> THEN d
             ELSE [d EXCEPT !.Aggregate = <<ResolveSeq(d.Aggregate[1], h)>>]
    IN IF g.InParallel = <<>> THEN g
       ELSE [g EXCEPT !.InParallel = <<[Steps |-> ResolveSeq(h[g.InParallel[1]].Steps, h)]>>]

(***************************************************************************)
(* Bytes.  A file's content is a sequence of lines <<key, value>>, value a *)
(* tuple.  Two keys are not data: "" (a blank line, which the YAML parser  *)
(* skips) and "!" (text the YAML parser rejects).                          *)
(***************************************************************************)
BlankLine == <<"", <<>>>>
BadLine == <<"!", <<>>>>

\* A job as yaml.Marshal writes it: its plan read through the heap.
ResolveJobs(jobs, h) ==
    [i \in 1..Len(jobs) |-> [Name |-> jobs[i].Name, Plan |-> ResolveSeq(jobs[i].Plan, h)]]

\* The fields of val in declaration order, each with its serialized value and
\* keep = FALSE when the field is omitempty and empty.
Fields(val, h) ==
    CASE val.T = "resource" ->   \* AnonymousResourceConfig
           << [k |-> "type", v |-> <<val.Type>>, keep |-> TRUE],
              [k |-> "source", v |-> <<val.Source>>, keep |-> TRUE],
              [k |-> "check_every", v |-> <<val.CheckEvery>>, keep |-> val.CheckEvery # ""] >>
      [] val.T = "task" ->       \* atc.TaskConfig
           << [k |-> "platform", v |-> <<val.Platform>>, keep |-> val.Platform # ""],
              [k |-> "inputs", v |-> val.Inputs, keep |-> val.Inputs # <<>>],
              [k |-> "run", v |-> val.Run.Path, keep |-> TRUE] >>
      [] val.T = "pipeline" ->   \* PipelineConfig
           << [k |-> "groups", v |-> val.Groups, keep |-> val.Groups # <<>>],
              [k |-> "resources", v |-> val.Resources, keep |-> val.Resources # <<>>],
              [k |-> "resource_types", v |-> val.ResourceTypes, keep |-> val.ResourceTypes # <<>>],
              [k |-> "jobs", v |-> ResolveJobs(val.Jobs, h), keep |-> val.Jobs # <<>>] >>

Kept(f) == f.keep

\* yaml.Marshal
Marshal(val, h) ==
    LET fl == SelectSeq(Fields(val, h), Kept)
    IN [i \in 1..Len(fl) |-> <<fl[i].k, fl[i].v>>]

IsData(line) == line[1] # ""

\* yaml.Unmarshal into interface{}: the generic tree is the map from the keys
\* to their values; ok = FALSE when the text is not valid YAML.
Unmarshal(bytes) ==
    LET data == SelectSeq(bytes, IsData)
        keys == {data[i][1] : i \in 1..Len(data)}
    IN IF "!" \in keys
       THEN [ok |-> FALSE, tree |-> <<>>]
       ELSE [ok |-> TRUE,
             tree |-> [k \in keys |->
                         CHOOSE i \in 1..Len(data) :
                            /\ data[i][1] = k
                            /\ \A j \in (i+1)..Len(data) : data[j][1] # k]]

\* The value the generic tree t, parsed from bytes, holds under key k.
TreeValue(bytes, t, k) == SelectSeq(bytes, IsData)[t[k]][2]

\* reflect.DeepEqual of the generic trees of two texts that both parsed.
DeepEqual(xb, x, yb, y) ==
    /\ DOMAIN x = DOMAIN y
    /\ \A k \in DOMAIN x : TreeValue(xb, x, k) = TreeValue(yb, y, k)

(***************************************************************************)
(* The project directory.  st is the state a call works on: a record with  *)
(* the fields fs, dirs, heap and the logs visited, reads and writes.       *)
(***************************************************************************)
\* filepath.Dir
Dir(path) == SubSeq(path, 1, Len(path) - 1)

\* filepath.Base
Base(path) == path[Len(path)]

\* The directories os.MkdirAll(d) makes exist: d and its ancestors.
MkdirAll(d) == {SubSeq(d, 1, n) : n \in 0..Len(d)}

\* ioutil.WriteFile
WriteFile(fsys, path, payload) ==
    [p \in DOMAIN fsys \cup {path} |-> IF p = path THEN payload ELSE fsys[p]]

\* A result [err, st] with its error, if any, wrapped: the
\* "if err != nil { return fmt.Errorf(tag + ": %s", err) }" after a call.
WrapErr(tag, r) == IF r.err # NoErr THEN [r EXCEPT !.err = Wrap(tag, @)] ELSE r

\* Lines 287-293
ensureParent(path, st) ==
    IF Dir(path) \notin st.dirs THEN [st EXCEPT !.dirs = @ \cup MkdirAll(Dir(path))] ELSE st

\* A syncFile that does not compare: what C1 excludes.
writeAlways(path, payload, st) ==
    [err |-> NoErr,
     st |-> [st EXCEPT !.fs = WriteFile(st.fs, path, payload),
                       !.writes = Append(@, path)]]

\* Lines 295-315, the parent directory being there.
compareAndWrite(path, payload, st) ==
    IF path \in st.dirs
    THEN \* ioutil.ReadFile of a directory: an error that is not IsNotExist
         [err |-> Err("io"), st |-> st]
    ELSE IF path \in DOMAIN st.fs /\ st.fs[path] # payload
    THEN [err |-> [Err("conflict") EXCEPT !.path = path], st |-> st]
    ELSE [err |-> NoErr,
          st |-> [st EXCEPT !.fs = WriteFile(st.fs, path, payload),
                            !.writes = Append(@, path)]]

\* A file sits where the path needs a directory: os.Stat and ioutil.ReadFile
\* fail with an error that is not IsNotExist.
UnderFile(path, fsys) == \E n \in 1..(Len(path) - 1) : SubSeq(path, 1, n) \in DOMAIN fsys

\* Lines 286-316
syncFile(path, payload, st) ==
    IF UnderFile(path, st.fs) THEN [err |-> Err("io"), st |-> st]
    ELSE compareAndWrite(path, payload, ensureParent(path, st))

(***************************************************************************)
(* Templates.  A template set gives, for each template name it defines, the *)
(* way that template lays out a value: its style.                          *)
(***************************************************************************)
Reverse(s) == [i \in 1..Len(s) |-> s[Len(s) + 1 - i]]

Styles == {"canon", "pretty", "lossy", "altered", "invalid"}

\* tmpl.ExecuteTemplate(prettyPayload, name, val) under a given style.
Layout(style, canon) ==
    CASE style = "canon"   -> canon
      [] style = "pretty"  -> <<BlankLine>> \o Reverse(canon) \o <<BlankLine>>
      [] style = "lossy"   -> SubSeq(canon, 1, Len(canon) - 1)
      [] style = "altered" -> IF canon = <<>> THEN canon
                              ELSE [canon EXCEPT ![1] = <<canon[1][1], canon[1][2] \o <<"x">>>>]
      [] style = "invalid" -> canon \o <<BadLine>>

\* A render that does not compare the two trees: what C6 excludes.
verifyNothing(dest, pretty, payload, x, y, st) ==
    WrapErr("failed to write", syncFile(dest, pretty, st))

\* Lines 257-281, x and y being what yaml.Unmarshal made of the template's
\* output and of the canonical payload.
verifyEquivalent(dest, pretty, payload, x, y, st) ==
    IF ~x.ok \/ ~y.ok
    THEN [err |-> Wrap("template rendered invalid YAML", Err("yaml")), st |-> st]
    ELSE IF ~DeepEqual(pretty, x.tree, payload, y.tree)
    THEN [err |-> Err("not equivalent"), st |-> st]
    ELSE WrapErr("failed to write", syncFile(dest, pretty, st))

\* Lines 250-270, payload being the canonical serialization.
renderPretty(dest, style, payload, st) ==
    verifyEquivalent(dest, Layout(style, payload), payload,
                     Unmarshal(Layout(style, payload)), Unmarshal(payload), st)

\* Lines 243-284
render(dest, tmpl, name, val, st) ==
    IF tmpl # <<>>
    THEN IF name \notin DOMAIN tmpl[1]
         THEN [err |-> Wrap("failed to execute template", Err("template")), st |-> st]
         ELSE renderPretty(dest, tmpl[1][name], Marshal(val, st.heap), st)
    ELSE WrapErr("failed to write", syncFile(dest, Marshal(val, st.heap), st))

\* anonymize: the resource's fields that AnonymousResourceConfig declares.
anonymize(res) ==
    [T |-> "resource", Type |-> res.Type, Source |-> res.Source, CheckEvery |-> res.CheckEvery]

(***************************************************************************)
(* The task-rewrite visitor of Execute (the func literal handed to         *)
(* walkPlan).  c is the Command with what it reads: ProjectName,           *)
(* PipelineName, TaskResources (artifact name -> local directory), Tmpl    *)
(* (<<>> or <<template set>>) and Local (local path -> bytes).  Go ranges   *)
(* over the map TaskResources in an unspecified order: ord is the order of *)
(* this range, a sequence of the artifact names.                           *)
(***************************************************************************)
\* strings.HasPrefix(path, artifactName + "/")
HasPrefix(path, artifactName) ==
    /\ Len(path) > Len(artifactName)
    /\ SubSeq(path, 1, Len(artifactName)) = artifactName

\* strings.TrimPrefix(path, artifactName + "/"), for a path with that prefix
TrimPrefix(path, artifactName) == SubSeq(path, Len(artifactName) + 1, Len(path))

\* strings.TrimSuffix(name, ".yml")
TrimSuffixYml(name) ==
    IF Len(name) >= 4 /\ SubSeq(name, Len(name) - 3, Len(name)) = ".yml"
    THEN SubSeq(name, 1, Len(name) - 4)
    ELSE name

\* yaml.Unmarshal(taskPayload, &taskConfig)
ParseTask(bytes) ==
    LET u == Unmarshal(bytes)
        field(k) == IF k \in DOMAIN u.tree THEN TreeValue(bytes, u.tree, k) ELSE <<>>
    IN IF ~u.ok THEN [ok |-> FALSE, task |-> <<>>]
       ELSE [ok |-> TRUE,
             task |-> [T |-> "task",
                       Platform |-> IF field("platform") = <<>> THEN "" ELSE field("platform")[1],
                       Inputs |-> field("inputs"),
                       Run |-> [Path |-> field("run")]]]

\* A visitor that keeps the config path after a match: what C8 excludes.
taskWrittenKeepsPath(p, taskName, r) ==
    IF r.err # NoErr
    THEN [plan |-> p, err |-> Wrap("failed to write task", r.err), st |-> r.st]
    ELSE [plan |-> [p EXCEPT !.Task = taskName], err |-> NoErr, st |-> r.st]

\* Lines 212-217, r being what render(taskPath, ...) returned.
taskWritten(p, taskName, r) ==
    IF r.err # NoErr
    THEN [plan |-> p, err |-> Wrap("failed to write task", r.err), st |-> r.st]
    ELSE [plan |-> [p EXCEPT !.TaskConfigPath = <<>>, !.Task = taskName],
          err |-> NoErr, st |-> r.st]

writeTask(p, taskName, taskConfig, c, st) ==
    taskWritten(p, taskName,
                render(<<"tasks", taskName \o ".yml">>, c.Tmpl, "task.tmpl", taskConfig, st))

\* A visitor that appends the project input: what C7 excludes.
scriptSyncedAppends(p, taskName, taskConfig, scriptName, c, synced) ==
    IF synced.err # NoErr
    THEN [plan |-> p, err |-> Wrap("failed to sync script", synced.err), st |-> synced.st]
    ELSE writeTask(p, taskName,
                   [taskConfig EXCEPT
                       !.Inputs = @ \o <<c.ProjectName>>,
                       !.Run.Path = <<c.ProjectName, "tasks", "scripts", scriptName>>],
                   c, synced.st)

\* Lines 203-209, synced being what syncFile(scriptPath, scriptPayload) returned.
scriptSynced(p, taskName, taskConfig, scriptName, c, synced) ==
    IF synced.err # NoErr
    THEN [plan |-> p, err |-> Wrap("failed to sync script", synced.err), st |-> synced.st]
    ELSE writeTask(p, taskName,
                   [taskConfig EXCEPT
                       !.Inputs = <<c.ProjectName>> \o @,
                       !.Run.Path = <<c.ProjectName, "tasks", "scripts", scriptName>>],
                   c, synced.st)

\* Lines 190-202: the script the task runs is read and synced.
convertScript(p, artifactName, taskName, taskConfig, c, st) ==
    LET localScriptPath ==
            <<c.TaskResources[artifactName]>> \o TrimPrefix(taskConfig.Run.Path, artifactName)
        scriptName == Base(taskConfig.Run.Path)
        st1 == [st EXCEPT !.reads = Append(@, localScriptPath)]
    IN IF localScriptPath \notin DOMAIN c.Local
       THEN [plan |-> p, err |-> Wrap("loading script", Err("io")), st |-> st1]
       ELSE scriptSynced(p, taskName, taskConfig, scriptName, c,
                         syncFile(<<"tasks", "scripts", scriptName>>,
                                  c.Local[localScriptPath], st1))

\* Lines 183-214, parsed being what yaml.Unmarshal(taskPayload, &taskConfig) gave.
taskParsed(p, artifactName, taskName, parsed, c, st) ==
    IF ~parsed.ok
    THEN [plan |-> p, err |-> Wrap("parsing task config", Err("yaml")), st |-> st]
    ELSE IF HasPrefix(parsed.task.Run.Path, artifactName)
    THEN convertScript(p, artifactName, taskName, parsed.task, c, st)
    ELSE writeTask(p, taskName, parsed.task, c, st)

\* Lines 174-217: the body of the range for a mapping whose prefix matches.
convertTask(p, artifactName, taskName, c, st) ==
    LET localTaskPath ==
            <<c.TaskResources[artifactName]>> \o TrimPrefix(p.TaskConfigPath, artifactName)
        st1 == [st EXCEPT !.reads = Append(@, localTaskPath)]
    IN IF localTaskPath \notin DOMAIN c.Local
       THEN [plan |-> p, err |-> Wrap("loading task", Err("io")), st |-> st1]
       ELSE taskParsed(p, artifactName, taskName, ParseTask(c.Local[localTaskPath]), c, st1)

RECURSIVE rangeTaskResources(_, _, _, _, _)

\* Lines 212-218: an error returns, anything else goes on to the next mapping
\* with the step as rewritten.
converted(r, rest, taskName, c) ==
    IF r.err # NoErr THEN r ELSE rangeTaskResources(r.plan, rest, taskName, c, r.st)

\* Lines 167-218: for artifactName, localDir := range cmd.TaskResources
rangeTaskResources(p, ord, taskName, c, st) ==
    IF ord = <<>> THEN [plan |-> p, err |-> NoErr, st |-> st]
    ELSE IF ~HasPrefix(p.TaskConfigPath, Head(ord))
    THEN rangeTaskResources(p, Tail(ord), taskName, c, st)
    ELSE converted(convertTask(p, Head(ord), taskName, c, st), Tail(ord), taskName, c)

\* Lines 151-221.  ords gives the order of the range of each visit of a task
\* step with a config path, st.nth counts those visits.
rewriteTask(p, ords, c, st) ==
    IF p.Task = "" THEN [plan |-> p, err |-> NoErr, st |-> st]
    ELSE IF p.TaskConfigPath = <<>> THEN [plan |-> p, err |-> NoErr, st |-> st]
    ELSE LET taskName == TrimSuffixYml(Base(p.TaskConfigPath))
             n == st.nth + 1
         IN rangeTaskResources(p, ords[n], taskName, c, [st EXCEPT !.nth = n])

(***************************************************************************)
(* A visitor that records and rewrites: the node handed over is logged,    *)
(* call number failAt (if any) returns an error, and every other call      *)
(* returns the node with its leaf names replaced by "seen".                *)
(***************************************************************************)
Seen(p) ==
    [p EXCEPT !.Get = IF @ = "" THEN @ ELSE "seen",
              !.Put = IF @ = "" THEN @ ELSE "seen",
              !.Task = IF @ = "" THEN @ ELSE "seen"]

spy(p, failAt, st) ==
    IF Len(st.visited) + 1 = failAt
    THEN [plan |-> p, err |-> Err("visit"), st |-> st]
    ELSE [plan |-> Seen(p), err |-> NoErr, st |-> st]

\* f(plan): the call of the visitor v on p.  st.visited logs every call.
Visit(v, p, st) ==
    LET r == IF v.kind = "spy" THEN spy(p, v.failAt, st)
             ELSE rewriteTask(p, v.ords, v.cmd, st)
    IN [r EXCEPT !.st.visited = Append(@, Resolve(p, st.heap))]

(***************************************************************************)
(* walkPlan.  A result is [plan, err, st]; on an error plan is             *)
(* atc.PlanConfig{}.                                                       *)
(***************************************************************************)
RECURSIVE walkPlan(_, _, _)
RECURSIVE walkSeq(_, _, _)

Failed(e, st) == [plan |-> EmptyPlan, err |-> e, st |-> st]

\* plans = append(plans, walked), t being the walk of the steps that follow.
tailWalked(p, t) == [plans |-> <<p>> \o t.plans, err |-> t.err, st |-> t.st]

\* The body of the loops after walkPlan(p, f) returned r.
headWalked(r, rest, v) ==
    IF r.err # NoErr THEN [plans |-> <<>>, err |-> r.err, st |-> r.st]
    ELSE tailWalked(r.plan, walkSeq(rest, v, r.st))

\* The loops of lines 408-415, 423-430 and 438-445: walks the steps in order,
\* stops at the first error.
walkSeq(steps, v, st) ==
    IF steps = <<>> THEN [plans |-> <<>>, err |-> NoErr, st |-> st]
    ELSE headWalked(walkPlan(Head(steps), v, st), Tail(steps), v)

\* A walk that looks at the step sequences before the hooks: what C10 excludes.
AlternativeStepsFirst(plan) ==
    IF plan.Do # <<>> THEN "Do"
    ELSE IF plan.Aggregate # <<>> THEN "Aggregate"
    ELSE IF plan.InParallel # <<>> THEN "InParallel"
    ELSE IF plan.Abort # <<>> THEN "Abort"
    ELSE IF plan.Error # <<>> THEN "Error"
    ELSE IF plan.Success # <<>> THEN "Success"
    ELSE IF plan.Failure # <<>> THEN "Failure"
    ELSE IF plan.Ensure # <<>> THEN "Ensure"
    ELSE IF plan.Try # <<>> THEN "Try"
    ELSE IF plan.Get # "" THEN "Get"
    ELSE IF plan.Put # "" THEN "Put"
    ELSE IF plan.Task # "" THEN "Task"
    ELSE ""

\* The branch walkPlan's chain of ifs takes (lines 346, 356, 366, 376, 386,
\* 396, 406, 421, 436, 451, 455, 459): the first populated alternative in
\* that order, "" when none is populated.
Alternative(plan) ==
    IF plan.Abort # <<>> THEN "Abort"
    ELSE IF plan.Error # <<>> THEN "Error"
    ELSE IF plan.Success # <<>> THEN "Success"
    ELSE IF plan.Failure # <<>> THEN "Failure"
    ELSE IF plan.Ensure # <<>> THEN "Ensure"
    ELSE IF plan.Try # <<>> THEN "Try"
    ELSE IF plan.Do # <<>> THEN "Do"
    ELSE IF plan.Aggregate # <<>> THEN "Aggregate"
    ELSE IF plan.InParallel # <<>> THEN "InParallel"
    ELSE IF plan.Get # "" THEN "Get"
    ELSE IF plan.Put # "" THEN "Put"
    ELSE IF plan.Task # "" THEN "Task"
    ELSE ""

\* A walk that visits the node without its walked hook: what C3 excludes.
hookWalkedDropped(plan, fld, r) ==
    IF r.err # NoErr THEN Failed(r.err, r.st)
    ELSE [plan |-> plan, err |-> NoErr, st |-> r.st]

\* Lines 346-404, after the walk of the child under fld returned r:
\* plan.<fld> = ptr(walked).
hookWalked(plan, fld, r) ==
    IF r.err # NoErr THEN Failed(r.err, r.st)
    ELSE [plan |-> [plan EXCEPT ![fld] = <<r.plan>>], err |-> NoErr, st |-> r.st]

\* Lines 406-434, after the loop over the steps under fld returned r:
\* plan.<fld> = &plans.
stepsWalked(plan, fld, r) ==
    IF r.err # NoErr THEN Failed(r.err, r.st)
    ELSE [plan |-> [plan EXCEPT ![fld] = <<r.plans>>], err |-> NoErr, st |-> r.st]

\* Lines 436-447, after the loop returned r: plan.InParallel.Steps = plans
\* assigns through the pointer that the copy plan shares with the plan it
\* was copied from.
inParallelWalked(plan, r) ==
    IF r.err # NoErr THEN Failed(r.err, r.st)
    ELSE [plan |-> plan, err |-> NoErr,
          st |-> [r.st EXCEPT !.heap[plan.InParallel[1]].Steps = r.plans]]

\* A walk that lets an unknown step through: what C5 excludes.
walkUnknownIgnored(plan, st) == [plan |-> plan, err |-> NoErr, st |-> st]

\* Lines 463-468
walkUnknown(plan, st) ==
    Failed([Err("unknown step type") EXCEPT !.node = <<Resolve(plan, st.heap)>>], st)

\* What walkPlan does before "return f(plan)" in the branch alt.
walkChildren(plan, alt, v, st) ==
    CASE alt \in Range(HookFields) -> hookWalked(plan, alt, walkPlan(plan[alt][1], v, st))
      [] alt \in Range(SeqFields) -> stepsWalked(plan, alt, walkSeq(plan[alt][1], v, st))
      [] alt = "InParallel" ->
            inParallelWalked(plan, walkSeq(st.heap[plan.InParallel[1]].Steps, v, st))
      [] alt \in {"Get", "Put", "Task"} -> [plan |-> plan, err |-> NoErr, st |-> st]
      [] OTHER -> walkUnknown(plan, st)

\* "return f(plan)", w being what the branch made of plan.
visitWalked(v, w) == IF w.err # NoErr THEN w ELSE Visit(v, w.plan, w.st)

\* Lines 345-469
walkPlan(plan, v, st) == visitWalked(v, walkChildren(plan, Alternative(plan), v, st))

(***************************************************************************)
(* Plans as documents: what the claims about walkPlan are stated on.       *)
(***************************************************************************)
\* The steps under a populated sequence alternative of a document.
StepsOf(doc, fld) == IF fld = "InParallel" THEN doc[fld][1].Steps ELSE doc[fld][1]

ChildFields == HookFields \o SeqFields \o <<"InParallel">>

\* The populated child alternatives of a node, in walkPlan's order.
Populated(doc) == SelectSeq(ChildFields, LAMBDA f : doc[f] # <<>>)

IsLeaf(doc) == doc.Get # "" \/ doc.Put # "" \/ doc.Task # ""

\* The number of alternatives of the sum type a node populates.
Alternatives(doc) ==
    Len(Populated(doc)) + (IF doc.Get # "" THEN 1 ELSE 0)
        + (IF doc.Put # "" THEN 1 ELSE 0) + (IF doc.Task # "" THEN 1 ELSE 0)

IsUnknown(doc) == Alternatives(doc) = 0

\* The children of a node under all its populated alternatives, in order.
RECURSIVE ChildrenUnder(_, _)
ChildrenUnder(doc, flds) ==
    IF flds = <<>> THEN <<>>
    ELSE (IF Head(flds) \in Range(HookFields) THEN doc[Head(flds)]
          ELSE StepsOf(doc, Head(flds))) \o ChildrenUnder(doc, Tail(flds))

Children(doc) == ChildrenUnder(doc, Populated(doc))

\* Every node of the tree, each before the nodes it is a descendant of.
RECURSIVE Nodes(_)
RECURSIVE NodesOfAll(_)
NodesOfAll(docs) == IF docs = <<>> THEN <<>> ELSE Nodes(Head(docs)) \o NodesOfAll(Tail(docs))
Nodes(doc) == NodesOfAll(Children(doc)) \o <<doc>>

\* The StepPlan invariant: every node populates exactly one alternative.
OneAlternative(doc) == \A n \in Range(Nodes(doc)) : Alternatives(n) = 1

\* The same, except that nodes may populate none.
AtMostOneAlternative(doc) == \A n \in Range(Nodes(doc)) : Alternatives(n) <= 1

HasUnknown(doc) == \E n \in Range(Nodes(doc)) : IsUnknown(n)

\* Bottom(doc): the plan a bottom-up rewrite by Seen returns for doc.
\* Carried(doc): doc with every child replaced by what the rewrite returned for it.
RECURSIVE Bottom(_)
RECURSIVE BottomAll(_)
RECURSIVE CarriedUnder(_, _)
BottomAll(docs) == [i \in 1..Len(docs) |-> Bottom(docs[i])]
CarriedUnder(doc, flds) ==
    IF flds = <<>> THEN doc
    ELSE LET f == Head(flds)
             d == IF f \in Range(HookFields) THEN [doc EXCEPT ![f] = <<Bottom(@[1])>>]
                  ELSE IF f = "InParallel"
                  THEN [doc EXCEPT ![f] = <<[Steps |-> BottomAll(@[1].Steps)]>>]
                  ELSE [doc EXCEPT ![f] = <<BottomAll(@[1])>>]
         IN CarriedUnder(d, Tail(flds))
Carried(doc) == CarriedUnder(doc, Populated(doc))
Bottom(doc) == Seen(Carried(doc))

\* The nodes a bottom-up rewrite hands to the visitor, in order.
RECURSIVE PostOrder(_)
RECURSIVE PostOrderAll(_)
PostOrderAll(docs) ==
    IF docs = <<>> THEN <<>> ELSE PostOrder(Head(docs)) \o PostOrderAll(Tail(docs))
PostOrder(doc) == PostOrderAll(Children(doc)) \o <<Carried(doc)>>

(***************************************************************************)
(* The plans walkPlan is applied to: every tree of depth at most MaxDepth  *)
(* over the step kinds, sequences of at most two steps, and nodes that     *)
(* populate a second alternative.                                          *)
(***************************************************************************)
UnknownStep == EmptyPlan

\* A step with a config path and no task name: no alternative is populated.
UnknownFileStep == [EmptyPlan EXCEPT !.TaskConfigPath = <<"a", "t.yml">>]

Leaves == {GetStep("g"), PutStep("p"), TaskStep("t"),
           TaskFileStep("t", <<"a", "t.yml">>), UnknownStep}

\* The sequences of steps around a step of S: none, the step alone, the step
\* after a get step, the step before a step that populates no alternative.
StepSeqs(S) ==
    {<<>>} \cup {<<x>> : x \in S} \cup {<<GetStep("g"), x>> : x \in S}
           \cup {<<x, UnknownFileStep>> : x \in S}

HookOf(f, x) == [EmptyPlan EXCEPT ![f] = <<x>>]

SeqOf(f, s) == [EmptyPlan EXCEPT ![f] = <<s>>]

InParallelOf(steps) == [EmptyPlan EXCEPT !.InParallel = <<[Steps |-> steps]>>]

\* The hooks added to a node that populates an alternative already.
Hooks ==
    {[f |-> "Success", l |-> TaskFileStep("t", <<"a", "t.yml">>)],
     [f |-> "Failure", l |-> UnknownStep],
     [f |-> "Ensure", l |-> TaskFileStep("t", <<"a", "t.yml">>)],
     [f |-> "Ensure", l |-> UnknownStep]}

HookedWith(x, h) == [x EXCEPT ![h.f] = <<h.l>>]

Known(S) == {y \in S : ~IsUnknown(y)}

Composites(S) ==
    {HookOf(f, x) : f \in Range(HookFields), x \in S}
    \cup {SeqOf(f, s) : f \in Range(SeqFields), s \in StepSeqs(S)}
    \cup {InParallelOf(s) : s \in StepSeqs(S)}

Hooked(S) == {HookedWith(x, h) : x \in Known(S), h \in Hooks}

RECURSIVE PlansOfDepth(_)
PlansOfDepth(d) ==
    IF d = 0 THEN Leaves
    ELSE LET S == PlansOfDepth(d - 1) IN S \cup Composites(S) \cup Hooked(S)

\* The plans below the root of a plan of depth MaxDepth.
SubPlans == PlansOfDepth(MaxDepth - 1)

(***************************************************************************)
(* SpecWalk: walkPlan applied once, with the recording visitor, to a plan  *)
(* of depth MaxDepth at most.                                              *)
(***************************************************************************)
NoTrace == [visited |-> <<>>, reads |-> <<>>, writes |-> <<>>]

NoCmd == [ProjectName |-> "", PipelineName |-> "", TaskResources |-> <<>>,
          Tmpl |-> <<>>, Local |-> <<>>]

NoConfig == [Groups |-> <<>>, Resources |-> <<>>, ResourceTypes |-> <<>>, Jobs |-> <<>>]

\* The state a call starts from.
Entry == [fs |-> fs, dirs |-> dirs, heap |-> heap,
          visited |-> <<>>, reads |-> <<>>, writes |-> <<>>, nth |-> 0]

\* The pipeline's plan doc is loaded; walkPlan has not been called.
Loaded(doc) ==
    LET loaded == Alloc(doc, <<>>)
    IN /\ heap = loaded.heap
       /\ call = [op |-> "none", arg |-> loaded.plan, before |-> doc, heap0 |-> loaded.heap,
                  failAt |-> 0, plan |-> EmptyPlan, err |-> NoErr]

\* The plan walked is any plan of PlansOfDepth(MaxDepth).
InitWalk ==
    /\ \/ \E doc \in SubPlans : Loaded(doc)
       \/ \E f \in Range(HookFields), x \in SubPlans : Loaded(HookOf(f, x))
       \/ \E f \in Range(SeqFields), s \in StepSeqs(SubPlans) : Loaded(SeqOf(f, s))
       \/ \E s \in StepSeqs(SubPlans) : Loaded(InParallelOf(s))
       \/ \E x \in Known(SubPlans), h \in Hooks : Loaded(HookedWith(x, h))
    /\ fs = <<>>
    /\ dirs = {<<>>}
    /\ pc = "ready"
    /\ cmd = NoCmd
    /\ config = NoConfig
    /\ newJobs = <<>>
    /\ trace = NoTrace

WalkPlan ==
    /\ pc = "ready"
    /\ \E failAt \in 0..Len(Nodes(call.before)) :
          LET r == walkPlan(call.arg, [kind |-> "spy", failAt |-> failAt], Entry)
          IN /\ call' = [call EXCEPT !.op = "walkPlan", !.failAt = failAt,
                                     !.plan = r.plan, !.err = r.err]
             /\ heap' = r.st.heap
             /\ trace' = [trace EXCEPT !.visited = r.st.visited]
    /\ pc' = "done"
    /\ UNCHANGED <<fs, dirs, cmd, config, newJobs>>

NextWalk == WalkPlan

SpecWalk == InitWalk /\ [][NextWalk]_vars

(***************************************************************************)
(* SpecFiles: any sequence of syncFile and render calls on a project       *)
(* directory that starts empty or with one file in it.                     *)
(***************************************************************************)
FilePaths == {<<"tasks", "t.yml">>, <<"tasks", "scripts">>, <<"tasks", "scripts", "s.sh">>}

Script(name) == << <<"#!", <<name>>>> >>

TaskValues ==
    {[T |-> "task", Platform |-> pf, Inputs |-> <<"x">>, Run |-> [Path |-> <<"a", "s.sh">>]] :
        pf \in {"", "linux"}}

\* No template set, a set whose task.tmpl has one of the styles, and a set
\* that does not define task.tmpl.
TemplateSets ==
    {<<>>, <<[n \in {"resource.tmpl"} |-> "canon"]>>}
    \cup {<<[n \in {"task.tmpl"} |-> style]>> : style \in Styles}

\* What a file may hold before the first call.
SeedContents ==
    {Script("one"), Script("two")}
    \cup {Layout(style, Marshal(val, <<>>)) : style \in {"canon", "pretty"}, val \in TaskValues}

Seeded(path, bytes) == [p \in {path} |-> bytes]

InitFiles ==
    /\ \/ fs = <<>> /\ dirs = {<<>>}
       \/ \E path \in FilePaths, bytes \in SeedContents :
             fs = Seeded(path, bytes) /\ dirs = MkdirAll(Dir(path))
    /\ heap = <<>>
    /\ pc = "ready"
    /\ cmd = NoCmd
    /\ config = NoConfig
    /\ newJobs = <<>>
    /\ trace = NoTrace
    /\ call = [op |-> "none"]

Returned(r) ==
    /\ fs' = r.st.fs
    /\ dirs' = r.st.dirs
    /\ UNCHANGED <<heap, pc, cmd, config, newJobs, trace>>

SyncFile ==
    \E path \in FilePaths, payload \in {Script("one"), Script("two")} :
        LET r == syncFile(path, payload, Entry)
        IN /\ call' = [op |-> "syncFile", path |-> path, payload |-> payload,
                       err |-> r.err, fs0 |-> fs, dirs0 |-> dirs]
           /\ Returned(r)

Render ==
    \E dest \in FilePaths, tmpl \in TemplateSets, val \in TaskValues :
        LET r == render(dest, tmpl, "task.tmpl", val, Entry)
        IN /\ call' = [op |-> "render", path |-> dest, tmpl |-> tmpl, name |-> "task.tmpl",
                       val |-> val, err |-> r.err, fs0 |-> fs, dirs0 |-> dirs]
           /\ Returned(r)

NextFiles == SyncFile \/ Render

SpecFiles == InitFiles /\ [][NextFiles]_vars

\* C1: a syncFile call on a path that holds other bytes returns a conflict
\* error naming the path and leaves the file as it was; and whatever the call
\* (syncFile or render), every file that existed before it exists after it
\* with the same content.
C1_NeverOverwrites ==
    call.op # "none" =>
        /\ (/\ call.op = "syncFile"
            /\ call.path \in DOMAIN call.fs0
            /\ call.fs0[call.path] # call.payload)
              => /\ call.err.kind = "conflict"
                 /\ call.err.path = call.path
                 /\ fs = call.fs0
        /\ \A p \in DOMAIN call.fs0 : p \in DOMAIN fs /\ fs[p] = call.fs0[p]

C1_Witness ==
    /\ call.op = "syncFile"
    /\ call.path \in DOMAIN call.fs0
    /\ call.fs0[call.path] # call.payload
    /\ call.err.kind = "conflict"
    /\ Cardinality(DOMAIN fs) = 2

\* The template's output and the canonical serialization deserialize to
\* deeply equal generic trees.
Equivalent(pretty, payload) ==
    /\ Unmarshal(pretty).ok
    /\ Unmarshal(payload).ok
    /\ DeepEqual(pretty, Unmarshal(pretty).tree, payload, Unmarshal(payload).tree)

\* C6: with a template set, render writes only template output equivalent to
\* the canonical serialization: a call that returns no error leaves exactly
\* that output at the destination and the output is equivalent; when the
\* output is not equivalent, is not valid, or the template is not defined, the
\* call returns an error and no file or directory is created or changed.
\* Without a template set the bytes synced are the canonical serialization: a
\* call that returns no error leaves them at the destination, and a conflict
\* is reported exactly when the destination held other bytes.
C6_RenderEquivalence ==
    call.op = "render" =>
        LET payload == Marshal(call.val, heap)
            defined == call.name \in DOMAIN call.tmpl[1]
            pretty == Layout(call.tmpl[1][call.name], payload)
        IN IF call.tmpl = <<>>
           THEN /\ call.err = NoErr => fs[call.path] = payload
                /\ call.err.kind = "conflict" <=>
                      (/\ ~UnderFile(call.path, call.fs0)
                       /\ call.path \in DOMAIN call.fs0
                       /\ call.fs0[call.path] # payload)
           ELSE /\ call.err = NoErr =>
                      /\ defined
                      /\ Equivalent(pretty, payload)
                      /\ fs[call.path] = pretty
                /\ (~defined \/ ~Equivalent(pretty, payload)) =>
                      /\ call.err # NoErr
                      /\ call.err.kind # "conflict"
                      /\ fs = call.fs0
                      /\ dirs = call.dirs0

C6_Witness ==
    /\ call.op = "render"
    /\ call.tmpl # <<>>
    /\ call.name = "task.tmpl"
    /\ call.tmpl[1]["task.tmpl"] = "pretty"
    /\ call.err = NoErr
    /\ call.path \notin DOMAIN call.fs0
    /\ fs[call.path] # Marshal(call.val, heap)

(***************************************************************************)
(* SpecVisit: the task-rewrite visitor applied once to a step, for the     *)
(* artifact mappings a -> dA and a/b -> dB, whose prefixes both match the  *)
(* config path a/b/t.yml.                                                  *)
(***************************************************************************)
\* The orders a range over the map tr can take.
Orders(tr) ==
    {ord \in [1..Cardinality(DOMAIN tr) -> DOMAIN tr] :
        \A i, j \in 1..Cardinality(DOMAIN tr) : ord[i] = ord[j] => i = j}

ArtifactMaps ==
    {<<>>,
     [a \in {<<"a">>} |-> "dA"],
     [a \in {<<"a">>, <<"a", "b">>} |-> IF a = <<"a">> THEN "dA" ELSE "dB"]}

TaskFile(platform, inputs, run) ==
    Marshal([T |-> "task", Platform |-> platform, Inputs |-> inputs, Run |-> [Path |-> run]],
            <<>>)

\* What dA/b/t.yml may hold: a task whose script is under a/b/, under a/ only,
\* or under no artifact; text that is not YAML; <<>> stands for no file.
TaskFilesA ==
    {TaskFile("linux", <<"x", "y">>, run) :
        run \in {<<"a", "b", "s.sh">>, <<"a", "s.sh">>, <<"bin", "sh">>}}
    \cup {<<BadLine>>, <<>>}

\* What dB/t.yml may hold.
TaskFilesB == {TaskFile("darwin", <<>>, <<"a", "b", "s.sh">>), <<>>}

ScriptFiles ==
    [p \in {<<"dA", "b", "s.sh">>, <<"dA", "s.sh">>, <<"dB", "s.sh">>} |-> Script(p[1])]

Merge(f, g) == [x \in DOMAIN f \cup DOMAIN g |-> IF x \in DOMAIN f THEN f[x] ELSE g[x]]

\* The local directories: the two task files (when they exist) and the scripts
\* (all or none).
LocalFiles(ta, tb, scripts) ==
    Merge(IF ta = <<>> THEN <<>> ELSE [p \in {<<"dA", "b", "t.yml">>} |-> ta],
          Merge(IF tb = <<>> THEN <<>> ELSE [p \in {<<"dB", "t.yml">>} |-> tb],
                IF scripts THEN ScriptFiles ELSE <<>>))

VisitSteps ==
    {GetStep("g"), TaskStep("t"),
     TaskFileStep("build", <<"a", "b", "t.yml">>),
     TaskFileStep("build", <<"c", "t.yml">>)}

VisitTemplates == {<<>>} \cup {<<[n \in {"task.tmpl"} |-> style]>> : style \in {"pretty", "lossy"}}

InitVisit ==
    /\ \E ta \in TaskFilesA, tb \in TaskFilesB, scripts \in BOOLEAN,
          tr \in ArtifactMaps, tmpl \in VisitTemplates :
          cmd = [ProjectName |-> "ci", PipelineName |-> "main", TaskResources |-> tr,
                 Tmpl |-> tmpl, Local |-> LocalFiles(ta, tb, scripts)]
    /\ \/ fs = <<>> /\ dirs = {<<>>}
       \/ fs = Seeded(<<"tasks", "t.yml">>, Script("other")) /\ dirs = MkdirAll(<<"tasks">>)
    /\ \E p \in VisitSteps : call = [op |-> "none", p |-> p]
    /\ heap = <<>>
    /\ pc = "ready"
    /\ config = NoConfig
    /\ newJobs = <<>>
    /\ trace = NoTrace

VisitStep ==
    /\ pc = "ready"
    /\ \E ord \in Orders(cmd.TaskResources) :
          LET r == rewriteTask(call.p, <<ord>>, cmd, Entry)
          IN /\ call' = [op |-> "visit", p |-> call.p, ord |-> ord, plan |-> r.plan,
                         err |-> r.err, fs0 |-> fs]
             /\ fs' = r.st.fs
             /\ dirs' = r.st.dirs
             /\ trace' = [visited |-> <<>>, reads |-> r.st.reads, writes |-> r.st.writes]
    /\ pc' = "done"
    /\ UNCHANGED <<heap, cmd, config, newJobs>>

NextVisit == VisitStep

SpecVisit == InitVisit /\ [][NextVisit]_vars

Visited == pc = "done" /\ call.op = "visit"

IsTaskFileStep(p) == p.Task # "" /\ p.TaskConfigPath # <<>>

\* The artifact names whose prefix matches the step's config path, in the
\* order of the range.
Matches == SelectSeq(call.ord, LAMBDA a : HasPrefix(call.p.TaskConfigPath, a))

\* The task file the step's config path names under the mapping of artifact a.
LocalTaskPath(a) == <<cmd.TaskResources[a]>> \o TrimPrefix(call.p.TaskConfigPath, a)

\* The file name of the config path without its .yml extension.
FileStem(path) ==
    CASE Base(path) = "t.yml" -> "t"
      [] Base(path) = "u.yml" -> "u"
      [] OTHER -> Base(path)

\* C7: a step that is no task step with a config path comes back unchanged,
\* with no file read or written.  A task step whose config path a mapping's
\* prefix matches comes back, on success, with an empty config path and the
\* file's stem as name, tasks/<name>.yml synced; if the loaded task's run path
\* is under the same prefix the script was synced first to
\* tasks/scripts/<script>, and the task written has that project-local run
\* path and the project as first input before the original inputs; otherwise
\* the task written is the task loaded.  (The mapping is the one the range
\* meets first.)
C7_VisitorResult ==
    Visited =>
        IF ~IsTaskFileStep(call.p)
        THEN /\ call.plan = call.p
             /\ call.err = NoErr
             /\ trace.reads = <<>>
             /\ trace.writes = <<>>
             /\ fs = call.fs0
        ELSE (Matches # <<>> /\ call.err = NoErr) =>
               LET a == Matches[1]
                   name == FileStem(call.p.TaskConfigPath)
                   taskPath == <<"tasks", name \o ".yml">>
                   loaded == ParseTask(cmd.Local[LocalTaskPath(a)]).task
                   written == ParseTask(fs[taskPath]).task
                   script == Base(loaded.Run.Path)
                   scriptPath == <<"tasks", "scripts", script>>
               IN /\ call.plan = [call.p EXCEPT !.TaskConfigPath = <<>>, !.Task = name]
                  /\ taskPath \in DOMAIN fs
                  /\ IF HasPrefix(loaded.Run.Path, a)
                     THEN /\ trace.writes = <<scriptPath, taskPath>>
                          /\ fs[scriptPath] =
                                cmd.Local[<<cmd.TaskResources[a]>>
                                            \o TrimPrefix(loaded.Run.Path, a)]
                          /\ written.Run.Path = <<cmd.ProjectName, "tasks", "scripts", script>>
                          /\ written.Inputs = <<cmd.ProjectName>> \o loaded.Inputs
                          /\ written.Platform = loaded.Platform
                     ELSE /\ trace.writes = <<taskPath>>
                          /\ written = loaded

C7_Witness ==
    /\ Visited /\ call.err = NoErr
    /\ call.p = TaskFileStep("build", <<"a", "b", "t.yml">>)
    /\ call.plan = TaskStep("t")
    /\ cmd.Tmpl # <<>>
    /\ trace.writes = <<<<"tasks", "scripts", "s.sh">>, <<"tasks", "t.yml">>>>
    /\ ParseTask(fs[<<"tasks", "t.yml">>]).task.Inputs = <<"ci", "x", "y">>

\* C8 (as claimed): every mapping whose prefix matches is processed, its task
\* file loaded, and the task written is the one of the last match.
C8_EveryMatchProcessed ==
    (Visited /\ IsTaskFileStep(call.p) /\ call.err = NoErr /\ Len(Matches) >= 2) =>
        /\ \A i \in 1..Len(Matches) : LocalTaskPath(Matches[i]) \in Range(trace.reads)
        /\ ParseTask(fs[<<"tasks", "t.yml">>]).task.Platform =
              ParseTask(cmd.Local[LocalTaskPath(Matches[Len(Matches)])]).task.Platform

\* C8 (amended): of the mappings whose prefix matches, only the first in the
\* order of the range is processed: its task file is the first file read, no
\* task file of a later match is read, and on success the task written is its
\* task.
C8_FirstMatchOnly ==
    (Visited /\ IsTaskFileStep(call.p) /\ Matches # <<>>) =>
        /\ trace.reads # <<>>
        /\ trace.reads[1] = LocalTaskPath(Matches[1])
        /\ \A i \in 2..Len(Matches) : LocalTaskPath(Matches[i]) \notin Range(trace.reads)
        /\ call.err = NoErr =>
              ParseTask(fs[<<"tasks", "t.yml">>]).task.Platform =
                  ParseTask(cmd.Local[LocalTaskPath(Matches[1])]).task.Platform

C8_Witness ==
    /\ Visited /\ call.err = NoErr
    /\ Len(Matches) = 2
    /\ Matches[1] = <<"a", "b">>
    /\ <<"dA", "b", "t.yml">> \in DOMAIN cmd.Local
    /\ ParseTask(fs[<<"tasks", "t.yml">>]).task.Platform = "darwin"

(***************************************************************************)
(* Spec: Command.Execute, run after run on the same inputs.  The pipeline  *)
(* file is readable and valid and the templates parse; cmd.Pipeline is what *)
(* the pipeline file holds.  pc = [run, at, i] is the run's number, the    *)
(* loop Execute is in and the element it is at.                            *)
(***************************************************************************)
MaxRuns == 2

Resource(name, type) == [Name |-> name, Type |-> type, Source |-> "src", CheckEvery |-> ""]

Job(name, steps) == [Name |-> name, Plan |-> steps]

BuildStep == TaskFileStep("build", <<"a", "b", "t.yml">>)

TestStep == TaskFileStep("test", <<"a", "u.yml">>)

ResourceLists ==
    {<<>>,
     <<Resource("repo", "git")>>,
     <<Resource("repo", "git"), Resource("img", "docker")>>,
     <<Resource("repo", "git"), Resource("repo", "s3")>>}

ResourceTypeLists == {<<>>, <<Resource("rt", "docker")>>}

JobLists ==
    {<<>>,
     <<Job("build", <<GetStep("repo"), BuildStep>>)>>,
     <<Job("build", <<InParallelOf(<<GetStep("repo"), TestStep>>),
                      [BuildStep EXCEPT !.Ensure = <<PutStep("img")>>]>>),
       Job("test", <<TestStep>>)>>,
     <<Job("build", <<BuildStep>>), Job("bad", <<TestStep, UnknownStep>>)>>}

ExecTemplates ==
    {<<>>,
     <<[n \in {"resource.tmpl", "task.tmpl", "pipeline.tmpl"} |-> "pretty"]>>,
     <<[n \in {"resource.tmpl", "task.tmpl"} |-> "pretty"]>>}

\* What the project directory may hold before the first run.
ProjectSeeds ==
    {<<>>,
     Seeded(<<"pipelines", "main.yml">>, Script("other")),
     Seeded(<<"resources">>, Script("other"))}

RECURSIVE AllocJobs(_, _)

\* yaml.Unmarshal(payload, &config) for the jobs: every plan is allocated.
AllocJobs(jobs, h) ==
    IF jobs = <<>> THEN [jobs |-> <<>>, heap |-> h]
    ELSE LET r == AllocSeq(Head(jobs).Plan, h)
             t == AllocJobs(Tail(jobs), r.heap)
         IN [jobs |-> <<[Head(jobs) EXCEPT !.Plan = r.plans]>> \o t.jobs, heap |-> t.heap]

\* The loop positions, each falling through to the next when its list is empty.
AtPipeline == [at |-> "pipeline", i |-> 1]

AtJobs(cfg) == IF cfg.Jobs # <<>> THEN [at |-> "jobs", i |-> 1] ELSE AtPipeline

AtResourceTypes(cfg) ==
    IF cfg.ResourceTypes # <<>> THEN [at |-> "resource_types", i |-> 1] ELSE AtJobs(cfg)

AtResources(cfg) ==
    IF cfg.Resources # <<>> THEN [at |-> "resources", i |-> 1] ELSE AtResourceTypes(cfg)

\* The position after element i of a loop over list.
AtNext(at, i, list, after) == IF i < Len(list) THEN [at |-> at, i |-> i + 1] ELSE after

\* An Execute that goes on after an error: what C9 excludes.
returnedIgnoringError(err, next, p) == [run |-> p.run, at |-> next.at, i |-> next.i]

\* "if err != nil { return ... }": an error ends the run where it is.
returned(err, next, p) ==
    IF err # NoErr THEN [run |-> p.run, at |-> "failed", i |-> p.i]
    ELSE [run |-> p.run, at |-> next.at, i |-> next.i]

\* "if err != nil { return fmt.Errorf(tag + ": %s", err) }"
Errorf(tag, e) == IF e # NoErr THEN Wrap(tag, e) ELSE NoErr

\* The state a step of Execute starts from.
Running == [fs |-> fs, dirs |-> dirs, heap |-> heap, visited |-> trace.visited,
            reads |-> trace.reads, writes |-> trace.writes, nth |-> 0]

\* What a step of Execute leaves: e is the error it returned, if any.
Left(st, e, next) ==
    /\ fs' = st.fs
    /\ dirs' = st.dirs
    /\ heap' = st.heap
    /\ trace' = [visited |-> st.visited, reads |-> st.reads, writes |-> st.writes]
    /\ pc' = returned(e, next, pc)
    /\ call' = IF e # NoErr THEN [call EXCEPT !.err = e, !.at = pc.at] ELSE call

\* A step that called render, which returned r.
Rendered(r, tag, next) == Left(r.st, Errorf(tag, r.err), next)

\* The task steps with a config path that the walk of a job's plan visits.
TaskVisits(j) ==
    Len(SelectSeq(NodesOfAll(ResolveSeq(j.Plan, heap)), IsTaskFileStep))

Init ==
    /\ \E rs \in ResourceLists, ts \in ResourceTypeLists, js \in JobLists,
          tr \in ArtifactMaps, tmpl \in ExecTemplates, tb \in TaskFilesB,
          ta \in {TaskFile("linux", <<"x", "y">>, <<"a", "b", "s.sh">>), <<>>} :
          cmd = [ProjectName |-> "ci", PipelineName |-> "main", TaskResources |-> tr,
                 Tmpl |-> tmpl,
                 Local |-> Merge(LocalFiles(ta, tb, TRUE),
                                 [p \in {<<"dA", "u.yml">>} |->
                                     TaskFile("linux", <<>>, <<"bin", "sh">>)]),
                 Pipeline |-> [T |-> "pipeline", Groups |-> <<>>, Resources |-> rs,
                               ResourceTypes |-> ts, Jobs |-> js]]
    /\ \E seed \in ProjectSeeds :
          /\ fs = seed
          /\ dirs = UNION {MkdirAll(Dir(path)) : path \in DOMAIN seed} \cup {<<>>}
    /\ heap = <<>>
    /\ pc = [run |-> 1, at |-> "start", i |-> 1]
    /\ config = NoConfig
    /\ newJobs = <<>>
    /\ trace = NoTrace
    /\ call = [op |-> "Execute", err |-> NoErr, at |-> "", fs1 |-> <<>>]

\* Lines 109-121, cfg being the pipeline loaded into the heap h.
directoriesMade(cfg, h) ==
    IF cfg.Resources # <<>> /\ <<"resources">> \in DOMAIN fs
    THEN Left([Running EXCEPT !.heap = h],
              Wrap("creating resources directory", Err("io")), AtResources(cfg))
    ELSE IF cfg.ResourceTypes # <<>> /\ <<"resource-types">> \in DOMAIN fs
    THEN Left([Running EXCEPT
                  !.heap = h,
                  !.dirs = @ \cup (IF cfg.Resources # <<>>
                                   THEN MkdirAll(<<"resources">>) ELSE {})],
              Wrap("creating resource types directory", Err("io")), AtResources(cfg))
    ELSE Left([Running EXCEPT
                  !.heap = h,
                  !.dirs = @ \cup (IF cfg.Resources # <<>>
                                   THEN MkdirAll(<<"resources">>) ELSE {})
                             \cup (IF cfg.ResourceTypes # <<>>
                                   THEN MkdirAll(<<"resource-types">>) ELSE {})],
              NoErr, AtResources(cfg))

\* Lines 93-121, loaded being the jobs of the pipeline file and the heap that
\* holds their plans.
pipelineLoaded(loaded) ==
    /\ config' = [cmd.Pipeline EXCEPT !.Jobs = loaded.jobs]
    /\ directoriesMade([cmd.Pipeline EXCEPT !.Jobs = loaded.jobs], loaded.heap)

\* Lines 93-121: the pipeline is loaded and the directories of the resources
\* and of the resource types are created.
Start ==
    /\ pc.at = "start"
    /\ pipelineLoaded(AllocJobs(cmd.Pipeline.Jobs, <<>>))
    /\ newJobs' = <<>>
    /\ UNCHANGED cmd

\* Lines 123-134: one iteration of the loop over config.Resources.
RenderResource ==
    /\ pc.at = "resources"
    /\ Rendered(render(<<"resources", config.Resources[pc.i].Name \o ".yml">>, cmd.Tmpl,
                       "resource.tmpl", anonymize(config.Resources[pc.i]), Running),
                "failed to write resource",
                AtNext(pc.at, pc.i, config.Resources, AtResourceTypes(config)))
    /\ UNCHANGED <<cmd, config, newJobs>>

\* Lines 136-147: one iteration of the loop over config.ResourceTypes.
RenderResourceType ==
    /\ pc.at = "resource_types"
    /\ Rendered(render(<<"resource-types", config.ResourceTypes[pc.i].Name \o ".yml">>,
                       cmd.Tmpl, "resource.tmpl", anonymize(config.ResourceTypes[pc.i]),
                       Running),
                "failed to write resource",
                AtNext(pc.at, pc.i, config.ResourceTypes, AtJobs(config)))
    /\ UNCHANGED <<cmd, config, newJobs>>

\* Lines 222-228, r being what walkPlan returned for the job j.
jobWalked(j, r) ==
    /\ Left(r.st, r.err, AtNext(pc.at, pc.i, config.Jobs, AtPipeline))
    /\ newJobs' = IF r.err # NoErr THEN newJobs
                  ELSE Append(newJobs, [j EXCEPT !.Plan = r.plan.Do[1]])

\* Lines 150-228: one iteration of the loop over config.Jobs.
WalkJob ==
    /\ pc.at = "jobs"
    /\ \E ords \in [1..TaskVisits(config.Jobs[pc.i]) -> Orders(cmd.TaskResources)] :
          jobWalked(config.Jobs[pc.i],
                    walkPlan([EmptyPlan EXCEPT !.Do = <<config.Jobs[pc.i].Plan>>],
                             [kind |-> "task", ords |-> ords, cmd |-> cmd], Running))
    /\ UNCHANGED <<cmd, config>>

\* Lines 230-240, cfg being the config with its resources and resource types
\* cleared and its jobs replaced.
pipelineRendered(cfg) ==
    /\ config' = cfg
    /\ Rendered(render(<<"pipelines", cmd.PipelineName \o ".yml">>, cmd.Tmpl,
                       "pipeline.tmpl", cfg, Running),
                "failed to sync pipeline", [at |-> "done", i |-> 1])

\* Lines 230-240
RenderPipeline ==
    /\ pc.at = "pipeline"
    /\ pipelineRendered([config EXCEPT !.Resources = <<>>, !.ResourceTypes = <<>>,
                                       !.Jobs = newJobs])
    /\ UNCHANGED <<cmd, newJobs>>

\* Execute is run again, on the same inputs, against the project directory
\* the run that succeeded left.
Rerun ==
    /\ pc.at = "done"
    /\ pc.run < MaxRuns
    /\ pc' = [run |-> pc.run + 1, at |-> "start", i |-> 1]
    /\ call' = [call EXCEPT !.fs1 = fs]
    /\ trace' = NoTrace
    /\ config' = NoConfig
    /\ newJobs' = <<>>
    /\ heap' = <<>>
    /\ UNCHANGED <<fs, dirs, cmd>>

Next ==
    \/ Start
    \/ RenderResource
    \/ RenderResourceType
    \/ WalkJob
    \/ RenderPipeline
    \/ Rerun

Spec == Init /\ [][Next]_vars

\* C2: a run of Execute that follows a run that succeeded, on the same inputs
\* and against the project directory that run left, does not fail and leaves
\* every file as it found it.
C2_SecondRunChangesNothing ==
    pc.run > 1 => pc.at # "failed" /\ fs = call.fs1

\* The loop the run is in, or was in when it failed.
Where == IF pc.at = "failed" THEN call.at ELSE pc.at

PhaseNo(at) ==
    CASE at = "start" -> 0
      [] at = "resources" -> 1
      [] at = "resource_types" -> 2
      [] at = "jobs" -> 3
      [] at = "pipeline" -> 4
      [] at = "done" -> 5

\* How many elements of the list of loop k the run has been through.
DoneCount(k, list) ==
    IF PhaseNo(Where) > k THEN Len(list)
    ELSE IF PhaseNo(Where) = k THEN pc.i - 1 ELSE 0

WritesUnder(top) == SelectSeq(trace.writes, LAMBDA w : w[1] = top)

TaskWrites == SelectSeq(trace.writes, LAMBDA w : w[1] = "tasks" /\ Len(w) = 2)

IsPrefix(s, t) == Len(s) <= Len(t) /\ SubSeq(t, 1, Len(s)) = s

Matched(p) ==
    IsTaskFileStep(p) /\ \E a \in DOMAIN cmd.TaskResources : HasPrefix(p.TaskConfigPath, a)

\* The task files the walk of the steps writes, in the order of the walk.
ExpectedTasks(steps) ==
    LET m == SelectSeq(PostOrderAll(steps), Matched)
    IN [n \in 1..Len(m) |-> <<"tasks", FileStem(m[n].TaskConfigPath) \o ".yml">>]

RECURSIVE ExpectedTasksAll(_)

ExpectedTasksAll(jobs) ==
    IF jobs = <<>> THEN <<>>
    ELSE ExpectedTasks(Head(jobs).Plan) \o ExpectedTasksAll(Tail(jobs))

PipelinePath == <<"pipelines", "main.yml">>

\* The job written is the job of the pipeline with every matched task step
\* naming its task and no other step changed.
JobRewritten(j, w) ==
    /\ w.Name = j.Name
    /\ LET a == NodesOfAll(j.Plan)
           b == NodesOfAll(w.Plan)
       IN /\ Len(a) = Len(b)
          /\ \A n \in 1..Len(a) :
                /\ b[n].Get = a[n].Get
                /\ b[n].Put = a[n].Put
                /\ IF Matched(a[n])
                   THEN b[n].TaskConfigPath = <<>> /\ b[n].Task = FileStem(a[n].TaskConfigPath)
                   ELSE b[n].TaskConfigPath = a[n].TaskConfigPath /\ b[n].Task = a[n].Task

\* C9: in every state of a run the files written so far are, in this order,
\* those of the resources the run has been through, those of the resource
\* types it has been through, the tasks (each script just before its task) of
\* the jobs it has been through in the order of the walk, and, only when the
\* run is done, the pipeline file; a run that failed has written nothing past
\* the step that failed (of the failing job a beginning of its tasks) and not
\* the pipeline file.  The pipeline file of a run that is done has no
\* resources, no resource types, and the rewritten jobs.
C9_OrderedAndAborting ==
    LET rs == cmd.Pipeline.Resources
        ts == cmd.Pipeline.ResourceTypes
        js == cmd.Pipeline.Jobs
        nr == DoneCount(1, rs)
        nt == DoneCount(2, ts)
        nj == DoneCount(3, js)
        full == ExpectedTasksAll(SubSeq(js, 1, nj))
        w == trace.writes
    IN /\ \A m, n \in 1..Len(w) :
             m < n => \/ w[m][1] = "resources"
                      \/ w[m][1] = "resource-types" /\ w[n][1] # "resources"
                      \/ w[m][1] = "tasks" /\ w[n][1] \in {"tasks", "pipelines"}
       /\ WritesUnder("resources") = [k \in 1..nr |-> <<"resources", rs[k].Name \o ".yml">>]
       /\ WritesUnder("resource-types") =
             [k \in 1..nt |-> <<"resource-types", ts[k].Name \o ".yml">>]
       /\ IF pc.at = "failed" /\ call.at = "jobs"
          THEN /\ IsPrefix(full, TaskWrites)
               /\ IsPrefix(TaskWrites, full \o ExpectedTasks(js[pc.i].Plan))
          ELSE TaskWrites = full
       /\ \A n \in 1..Len(w) :
             (w[n][1] = "tasks" /\ Len(w[n]) = 3 /\ n < Len(w)) =>
                 (w[n + 1][1] = "tasks" /\ Len(w[n + 1]) = 2)
       /\ WritesUnder("pipelines") = IF pc.at = "done" THEN <<PipelinePath>> ELSE <<>>
       /\ pc.at = "done" =>
             LET bytes == fs[PipelinePath]
                 u == Unmarshal(bytes)
             IN /\ u.ok
                /\ "resources" \notin DOMAIN u.tree
                /\ "resource_types" \notin DOMAIN u.tree
                /\ config.Resources = <<>> /\ config.ResourceTypes = <<>>
                /\ js # <<>> =>
                      /\ "jobs" \in DOMAIN u.tree
                      /\ Len(TreeValue(bytes, u.tree, "jobs")) = Len(js)
                      /\ \A k \in 1..Len(js) :
                            JobRewritten(js[k], TreeValue(bytes, u.tree, "jobs")[k])

\* A run that wrote a resource, a resource type, a script and two tasks, and
\* then the pipeline.
C9_Witness ==
    /\ pc.at = "done"
    /\ Len(trace.writes) >= 6
    /\ trace.writes[Len(trace.writes)] = PipelinePath
    /\ Len(WritesUnder("resources")) = 2
    /\ Len(TaskWrites) = 3

\* A run that failed in its second job after writing the tasks of the first.
C9_AbortWitness ==
    /\ pc.at = "failed"
    /\ call.at = "jobs"
    /\ pc.i = 2
    /\ TaskWrites # <<>>

(***************************************************************************)
(* Properties of walkPlan (SpecWalk).                                      *)
(***************************************************************************)
Walked == pc = "done" /\ call.op = "walkPlan"

\* The caller's plan as the caller reads it after the call.
CallerPlan == Resolve(call.arg, heap)

\* The returned plan, read through the heap.
ReturnedPlan == Resolve(call.plan, heap)

\* The position in Nodes(doc) of the first node that populates no alternative.
FirstUnknown(doc) ==
    CHOOSE k \in 1..Len(Nodes(doc)) :
        /\ IsUnknown(Nodes(doc)[k])
        /\ \A j \in 1..(k - 1) : ~IsUnknown(Nodes(doc)[j])

\* C3: on a plan whose every node populates exactly one alternative, visit is
\* applied once to every node, children first and in sequence order, each node
\* carrying what visit returned for its children, and the returned plan is the
\* bottom-up rewrite; when a call of visit fails the calls made are the ones
\* before it in that order.
C3_WalkBottomUp ==
    (Walked /\ OneAlternative(call.before)) =>
        IF call.failAt = 0
        THEN /\ call.err = NoErr
             /\ trace.visited = PostOrder(call.before)
             /\ Len(trace.visited) = Len(Nodes(call.before))
             /\ ReturnedPlan = Bottom(call.before)
        ELSE trace.visited = SubSeq(PostOrder(call.before), 1, call.failAt)

C3_Witness ==
    /\ Walked /\ OneAlternative(call.before) /\ call.failAt = 0
    /\ call.before.Try # <<>>
    /\ call.before.Try[1].InParallel # <<>>
    /\ call.before.Try[1].InParallel[1].Steps =
           <<GetStep("g"), TaskFileStep("t", <<"a", "t.yml">>)>>
    /\ ReturnedPlan.Try[1].InParallel[1].Steps =
           <<GetStep("seen"), TaskFileStep("seen", <<"a", "t.yml">>)>>

\* C4 (as claimed): when the walk returns an error, visit has been applied to
\* no node after the failing one and the caller's plan reads as before the call.
C4_ErrorLeavesCallerPlan ==
    (Walked /\ call.err # NoErr) =>
        /\ call.err.kind = "visit" => Len(trace.visited) = call.failAt
        /\ CallerPlan = call.before

\* C5: in a plan whose nodes populate at most one alternative, a node that
\* populates none makes the walk fail; unless visit failed first, the error is
\* "unknown step type" with the first such node serialized, no plan is
\* returned, and visit was applied neither to that node nor to an ancestor of
\* it (only to the nodes before it).
C5_UnknownStepFails ==
    (Walked /\ AtMostOneAlternative(call.before) /\ HasUnknown(call.before)) =>
        /\ call.err # NoErr
        /\ call.failAt = 0 => call.err.kind = "unknown step type"
        /\ call.err.kind = "unknown step type" =>
              /\ call.err.node = <<Nodes(call.before)[FirstUnknown(call.before)]>>
              /\ call.plan = EmptyPlan
              /\ Len(trace.visited) = FirstUnknown(call.before) - 1
              /\ \A i \in 1..Len(trace.visited) : ~HasUnknown(trace.visited[i])

C5_Witness ==
    /\ Walked /\ call.failAt = 0
    /\ call.before.Ensure # <<>>
    /\ call.before.Ensure[1].Do = << <<GetStep("g"), UnknownStep>> >>
    /\ call.err.kind = "unknown step type"
    /\ trace.visited = <<GetStep("g")>>

\* C10: a node with two or more populated child alternatives is walked as if
\* only the first of them (in the order abort, error, success, failure, ensure,
\* try, do, aggregate, in_parallel) were populated: the visits are those of the
\* walk of that alternative, then one visit of the node; there is no error
\* unless that walk has one; the other alternatives come back unchanged.
C10_FirstAlternativeOnly ==
    (Walked /\ call.failAt = 0 /\ Len(Populated(call.before)) >= 2) =>
        LET alt == Populated(call.before)[1]
            spy0 == [kind |-> "spy", failAt |-> 0]
            entry == [Entry EXCEPT !.heap = call.heap0]
            sub == IF alt \in Range(HookFields)
                   THEN walkPlan(call.arg[alt][1], spy0, entry)
                   ELSE walkSeq(call.arg[alt][1], spy0, entry)
        IN IF sub.err # NoErr
           THEN call.err = sub.err /\ trace.visited = sub.st.visited
           ELSE /\ call.err = NoErr
                /\ Len(trace.visited) = Len(sub.st.visited) + 1
                /\ SubSeq(trace.visited, 1, Len(sub.st.visited)) = sub.st.visited
                /\ \A f \in Range(Populated(call.before)) \ {alt} :
                      ReturnedPlan[f] = call.before[f]

C10_Witness ==
    /\ Walked /\ call.failAt = 0
    /\ call.before.Ensure = <<TaskFileStep("t", <<"a", "t.yml">>)>>
    /\ call.before.Do # <<>>
    /\ call.err = NoErr
    /\ ReturnedPlan.Ensure[1].Task = "seen"
    /\ ReturnedPlan.Do = call.before.Do
    /\ Len(trace.visited) = 2

====
